---------------------------- MODULE Spec2Model ----------------------------
(***************************************************************************)
(* A model of volcano_explorer.py: the year extraction (extract_year), the *)
(* fade colour (compute_color), and one run of the Streamlit script (load, *)
(* column check, simulation setup, sliders, animation loop, data table).   *)
(***************************************************************************)
EXTENDS Integers, Sequences, FiniteSets, TLC

(***************************************************************************)
(* Python floats.  compute_color divides, subtracts and multiplies in IEEE *)
(* binary64 and truncates with int().  A float is modelled by its exact    *)
(* value: a sign, an integer part and the bits of the fraction (no         *)
(* trailing zero), and each operation rounds the exact result to 53        *)
(* significant bits, ties to even.                                         *)
(***************************************************************************)

\* Significant bits of a Python float (binary64).
FloatPrecision == 53

RECURSIVE BitLen(_)
BitLen(n) == IF n = 0 THEN 0 ELSE 1 + BitLen(n \div 2)

\* Index of the last bit of s[1..i] equal to b, 0 when there is none.
RECURSIVE LastBit(_, _, _)
LastBit(s, b, i) ==
    IF i = 0 THEN 0
    ELSE IF s[i] = b THEN i
    ELSE LastBit(s, b, i - 1)

\* Index of the first 1 bit of s[i..], 0 when there is none.
RECURSIVE FirstOneFrom(_, _)
FirstOneFrom(s, i) ==
    IF i > Len(s) THEN 0
    ELSE IF s[i] = 1 THEN i
    ELSE FirstOneFrom(s, i + 1)

FirstOne(s) == FirstOneFrom(s, 1)

\* Drop the trailing zero bits of a fraction.
Trim(s) == SubSeq(s, 1, LastBit(s, 1, Len(s)))

\* s plus one unit in its last place: <<carry out, bits>>.
AddOne(s) ==
    LET z == LastBit(s, 0, Len(s))
    IN  IF z = 0 THEN <<1, [k \in 1..Len(s) |-> 0]>>
        ELSE <<0, [k \in 1..Len(s) |->
                     IF k < z THEN s[k] ELSE IF k = z THEN 1 ELSE 0]>>

FloatZero == [neg |-> FALSE, int |-> 0, frac |-> <<>>]

\* The magnitude q + 0.frac rounded to the nearest float, ties to even.
RoundFloat(q, frac) ==
    LET f1 == FirstOne(frac)
        keep == IF q > 0 THEN FloatPrecision - BitLen(q)
                ELSE f1 - 1 + FloatPrecision
    IN  IF Len(frac) <= keep
        THEN [int |-> q, frac |-> Trim(frac)]
        ELSE
          LET head   == SubSeq(frac, 1, keep)
              guard  == frac[keep + 1]
              sticky == \E i \in (keep + 2)..Len(frac) : frac[i] = 1
              lsb    == IF keep = 0 THEN q % 2 ELSE frac[keep]
              up     == guard = 1 /\ (sticky \/ lsb = 1)
              inc    == AddOne(head)
          IN  IF up
              THEN [int |-> q + inc[1], frac |-> Trim(inc[2])]
              ELSE [int |-> q, frac |-> Trim(head)]

\* The float of sign s and magnitude mag; a zero carries no sign here
\* (int() and the comparisons of the program do not tell -0.0 from 0.0).
Signed(s, mag) ==
    IF mag.int = 0 /\ mag.frac = <<>> THEN FloatZero
    ELSE [neg |-> s, int |-> mag.int, frac |-> mag.frac]

\* The w low bits of v, most significant first.
Bits(v, w) == [k \in 1..w |-> (v \div 2 ^ (w - k)) % 2]

\* The first n bits of the binary fraction r / p (0 <= r < p < 2^14), by
\* long division, 16 bits at a time.
RECURSIVE DivBits(_, _, _)
DivBits(r, p, n) ==
    IF n <= 0 THEN <<>>
    ELSE LET w   == IF n < 16 THEN n ELSE 16
             num == r * 2 ^ w
         IN  Bits(num \div p, w) \o DivBits(num % p, p, n - w)

\* The remainder left after those n bits.
RECURSIVE DivRem(_, _, _)
DivRem(r, p, n) ==
    IF n <= 0 THEN r
    ELSE LET w == IF n < 16 THEN n ELSE 16
         IN  DivRem((r * 2 ^ w) % p, p, n - w)

\* Zero bits before the first 1 bit of r / p (0 < r < p).
RECURSIVE LeadZeros(_, _)
LeadZeros(r, p) == IF 2 * r >= p THEN 0 ELSE 1 + LeadZeros(2 * r, p)

\* a / b, Python's true division of integers (b > 0), correctly rounded.
FloatDiv(a, b) ==
    LET m == IF a < 0 THEN 0 - a ELSE a
        q == m \div b
        r == m % b
        n == (IF q > 0 THEN FloatPrecision - BitLen(q)
              ELSE LeadZeros(r, b) + FloatPrecision) + 1
        sticky == IF DivRem(r, b, n) # 0 THEN <<1>> ELSE <<>>
    IN  IF r = 0 THEN Signed(a < 0, [int |-> q, frac |-> <<>>])
        ELSE Signed(a < 0, RoundFloat(q, DivBits(r, b, n) \o sticky))

Complement(s) == [i \in 1..Len(s) |-> 1 - s[i]]

\* 1 - x for a float x >= 0.
FloatOneMinus(x) ==
    IF x.int = 0
    THEN IF x.frac = <<>> THEN [neg |-> FALSE, int |-> 1, frac |-> <<>>]
         ELSE Signed(FALSE, RoundFloat(0, AddOne(Complement(x.frac))[2]))
    ELSE Signed(TRUE, RoundFloat(x.int - 1, x.frac))

\* m * 0.s + c / 2^Len(s) for a fraction s, an integer m >= 0 and a carry c
\* coming from the bits below: <<integer part, bits>>.
RECURSIVE MulBits(_, _, _)
MulBits(s, m, c) ==
    IF c >= 0 /\ Len(s) = 0 THEN <<c, <<>>>>   \* the carry is evaluated first
    ELSE IF Len(s) = 1
    THEN LET t == s[1] * m + c IN <<t \div 2, <<t % 2>>>>
    ELSE LET h  == Len(s) \div 2
             lo == MulBits(SubSeq(s, h + 1, Len(s)), m, c)
             hi == MulBits(SubSeq(s, 1, h), m, lo[1])
         IN  <<hi[1], hi[2] \o lo[2]>>

\* x * m for a float x and an integer m >= 0.
FloatMul(x, m) ==
    LET r == MulBits(x.frac, m, 0)
    IN  Signed(x.neg, RoundFloat(x.int * m + r[1], r[2]))

\* int(x): truncation toward zero.
FloatToInt(x) == IF x.neg THEN 0 - x.int ELSE x.int

(***************************************************************************)
(* Optional values: None is the empty tuple, a present value v is <<v>>.   *)
(* A regex match is the matched text, which is never empty.                *)
(***************************************************************************)
None == <<>>
Some(v) == <<v>>

(***************************************************************************)
(* extract_year (lines 191-194).  A cell of the Last_Eruption column is a  *)
(* text, a sequence of one-character strings, or the float NaN that pandas *)
(* gives an empty cell.                                                    *)
(***************************************************************************)
Digits == {"0", "1", "2", "3", "4", "5", "6", "7", "8", "9"}

DigitValue(c) ==
    CASE c = "0" -> 0 [] c = "1" -> 1 [] c = "2" -> 2 [] c = "3" -> 3
      [] c = "4" -> 4 [] c = "5" -> 5 [] c = "6" -> 6 [] c = "7" -> 7
      [] c = "8" -> 8 [] c = "9" -> 9

StrCell(t) == [type |-> "str", val |-> t]
NaNCell == [type |-> "float", val |-> <<>>]

\* str(s): a text is itself, the float NaN prints as "nan".
str(s) == IF s.type = "str" THEN s.val ELSE <<"n", "a", "n">>

\* \d{lo,max}, greedy: the number of digits taken from index j, at most max.
RECURSIVE DigitRun(_, _, _)
DigitRun(t, j, max) ==
    IF max = 0 \/ j > Len(t) THEN 0
    ELSE IF t[j] \in Digits THEN 1 + DigitRun(t, j + 1, max - 1)
    ELSE 0

\* The digits taken lazily, \d{3,4}?: three of them even when a fourth follows.
MatchAt_lazy(t, i) ==
    LET minus == i <= Len(t) /\ t[i] = "-"
        after == DigitRun(t, i + 1, 3)
        here  == DigitRun(t, i, 3)
    IN  IF minus /\ after >= 3 THEN 1 + after
        ELSE IF here >= 3 THEN here
        ELSE 0

\* The pattern -?\d{3,4} tried at index i: the length it matches, 0 for no
\* match.  "-?" takes a minus sign when there is one, and gives it back when
\* the digits do not follow.
MatchAt(t, i) ==
    LET minus == i <= Len(t) /\ t[i] = "-"
        after == DigitRun(t, i + 1, 4)
        here  == DigitRun(t, i, 4)
    IN  IF minus /\ after >= 3 THEN 1 + after
        ELSE IF here >= 3 THEN here
        ELSE 0

\* re.search: the match at the first index where the pattern matches.
RECURSIVE re_search(_, _)
re_search(t, i) ==
    IF i > Len(t) THEN None
    ELSE IF MatchAt(t, i) > 0 THEN SubSeq(t, i, i + MatchAt(t, i) - 1)
    ELSE re_search(t, i + 1)

\* int() of a run of digits.
RECURSIVE DigitsToInt(_)
DigitsToInt(d) ==
    IF d = <<>> THEN 0
    ELSE 10 * DigitsToInt(SubSeq(d, 1, Len(d) - 1)) + DigitValue(d[Len(d)])

\* int(match.group(1)).
int(g) == IF g[1] = "-" THEN 0 - DigitsToInt(Tail(g)) ELSE DigitsToInt(g)

extract_year(s) ==
    LET match == re_search(str(s), 1)
    IN  IF match # None THEN Some(int(match)) ELSE None

(***************************************************************************)
(* compute_color (lines 241-251).  The result is the colour returned, or   *)
(* the exception raised by the division when pre is 0.                     *)
(***************************************************************************)
base_color == <<200, 200, 200, 100>>

Returns(v) == [raise |-> "", value |-> v]
Raises(e) == [raise |-> e, value |-> <<>>]

\* pd.isna
isna(v) == v = None

\* pre and post swapped in the window test.
compute_color_swapped(row, sim_year, pre, post) ==
    LET eruption_year == row.Eruption_Year
        y == eruption_year[1]
    IN  IF isna(eruption_year) \/ sim_year < y - post \/ sim_year > y + pre
        THEN Returns(base_color)
        ELSE IF sim_year <= y /\ pre = 0 THEN Raises("ZeroDivisionError")
        ELSE IF sim_year > y /\ post = 0 THEN Raises("ZeroDivisionError")
        ELSE
          LET f == IF sim_year <= y
                   THEN FloatDiv(sim_year - (y - pre), pre)
                   ELSE FloatOneMinus(FloatDiv(sim_year - y, post))
          IN  Returns(<<255, 0, 0, FloatToInt(FloatMul(f, 180))>>)

\* The window closed at both ends: <= and >= for < and >.
compute_color_exclusive(row, sim_year, pre, post) ==
    LET eruption_year == row.Eruption_Year
        y == eruption_year[1]
    IN  IF isna(eruption_year) \/ sim_year <= y - pre \/ sim_year >= y + post
        THEN Returns(base_color)
        ELSE
          LET f == IF sim_year <= y
                   THEN FloatDiv(sim_year - (y - pre), pre)
                   ELSE FloatOneMinus(FloatDiv(sim_year - y, post))
          IN  Returns(<<255, 0, 0, FloatToInt(FloatMul(f, 180))>>)

\* The falling ramp without its "1 -".
compute_color_rising(row, sim_year, pre, post) ==
    LET eruption_year == row.Eruption_Year
        y == eruption_year[1]
    IN  IF isna(eruption_year) \/ sim_year < y - pre \/ sim_year > y + post
        THEN Returns(base_color)
        ELSE IF sim_year <= y /\ pre = 0 THEN Raises("ZeroDivisionError")
        ELSE
          LET f == IF sim_year <= y
                   THEN FloatDiv(sim_year - (y - pre), pre)
                   ELSE FloatDiv(sim_year - y, post)
          IN  Returns(<<255, 0, 0, FloatToInt(FloatMul(f, 180))>>)

compute_color(row, sim_year, pre, post) ==
    LET eruption_year == row.Eruption_Year
        y == eruption_year[1]
    IN  IF isna(eruption_year) \/ sim_year < y - pre \/ sim_year > y + post
        THEN Returns(base_color)
        ELSE IF sim_year <= y /\ pre = 0 THEN Raises("ZeroDivisionError")
        ELSE
          LET f == IF sim_year <= y
                   THEN FloatDiv(sim_year - (y - pre), pre)
                   ELSE FloatOneMinus(FloatDiv(sim_year - y, post))
              alpha == FloatToInt(FloatMul(f, 180))
          IN  Returns(<<255, 0, 0, alpha>>)

(***************************************************************************)
(* The script's constants.                                                 *)
(***************************************************************************)
pre_fade == 15
post_fade == 15
slider_min_value == -4360
slider_max_value == 2023
\* The defaults of compute_color's pre and post, which update_map overrides.
default_fade == 5

required_columns ==
    {"Volcano_Name", "Country", "Latitude", "Longitude", "Volcano_Type",
     "Last_Eruption"}

(***************************************************************************)
(* Bounds of the model.                                                    *)
(***************************************************************************)
\* Longest text given to extract_year on its own.
MaxLen == 7
\* Largest pre and post given to compute_color on its own (beside 15).
MaxFade == 6
\* Years beyond the fade window that compute_color is tried at.
Margin == 2
\* Most rows of a dataset.
MaxRows == 2

\* Characters of the texts: a minus sign, two digits, a letter.
Chars == {"-", "0", "7", "x"}

Texts == UNION {[1..n -> Chars] : n \in 0..MaxLen}

\* Cells of the datasets: "1991 CE", "Unknown", "-4350", "2015".
DataCells ==
    { StrCell(<<"1", "9", "9", "1", " ", "C", "E">>),
      StrCell(<<"U", "n", "k", "n", "o", "w", "n">>),
      StrCell(<<"-", "4", "3", "5", "0">>),
      StrCell(<<"2", "0", "1", "5">>) }

\* volcano_data.csv: unreadable, or its header and its Last_Eruption cells.
CsvFiles ==
    {[readable |-> FALSE, columns |-> {}, cells |-> <<>>]} \cup
    { [readable |-> TRUE, columns |-> c, cells |-> r] :
        c \in {required_columns, required_columns \ {"Country"}},
        r \in UNION {[1..n -> DataCells] : n \in 0..MaxRows} }

\* Ranges the user sets the Step 1 slider to.
RangePicks ==
    { <<slider_min_value, slider_min_value + 20>>, <<1970, 2010>>,
      <<1976, 2006>>, <<1991, 1991>>, <<2000, slider_max_value>> }

\* Eruption years compute_color is tried with.
ColorYears == {-4350, 0, 1991}

VARIABLES
    pc,                \* where the run is
    args, ret,         \* a call of extract_year or compute_color on its own
    csv,               \* volcano_data.csv
    df,                \* the DataFrame
    errors,            \* the st.error messages shown
    raised,            \* the exception that ended the run, "" for none
    computed_min, computed_max,
    simulation_range,
    legend,            \* whether the legend is shown
    total_years,
    i,                 \* frames drawn so far
    frame,             \* the deck last given to map_placeholder
    year_display,
    progress,          \* the value last given to progress_bar
    table              \* the rows of filtered_df

vars == <<pc, args, ret, csv, df, errors, raised, computed_min, computed_max,
          simulation_range, legend, total_years, i, frame, year_display,
          progress, table>>

script_vars == <<csv, df, errors, raised, computed_min, computed_max,
                 simulation_range, legend, total_years, i, frame,
                 year_display, progress, table>>

NoFrame == [year |-> 0, active |-> {}, inactive |-> {}, color |-> <<>>,
            layers |-> <<>>]

\* pd.DataFrame()
EmptyDataFrame == [columns |-> {}, Last_Eruption |-> <<>>, Eruption_Year |-> <<>>]

ScriptIdle ==
    /\ csv = [readable |-> FALSE, columns |-> {}, cells |-> <<>>]
    /\ df = EmptyDataFrame
    /\ errors = <<>>
    /\ raised = ""
    /\ computed_min = 0
    /\ computed_max = 0
    /\ simulation_range = <<0, 0>>
    /\ legend = FALSE
    /\ total_years = 0
    /\ i = 0
    /\ frame = NoFrame
    /\ year_display = None
    /\ progress = FloatZero
    /\ table = <<>>

(***************************************************************************)
(* extract_year on its own: every text of at most MaxLen characters, and   *)
(* the empty cell.                                                         *)
(***************************************************************************)
InitExtract ==
    /\ pc = "call"
    /\ args \in {StrCell(t) : t \in Texts} \cup {NaNCell}
    /\ ret = None
    /\ ScriptIdle

CallExtractYear ==
    /\ pc = "call"
    /\ ret' = extract_year(args)
    /\ pc' = "returned"
    /\ UNCHANGED <<args, script_vars>>

NextExtract == CallExtractYear

SpecExtract == InitExtract /\ [][NextExtract]_vars

(***************************************************************************)
(* compute_color on its own.                                               *)
(***************************************************************************)
Fades == 0..MaxFade \cup {pre_fade, post_fade}

InitColor ==
    /\ pc = "call"
    /\ \E e \in {None} \cup {Some(y) : y \in ColorYears}, pre \in Fades, post \in Fades :
         \E c \in ColorYears :
           \E sim_year \in (c - pre - Margin)..(c + post + Margin) :
             /\ e # None => e[1] = c
             /\ args = [row |-> [Eruption_Year |-> e], sim_year |-> sim_year,
                        pre |-> pre, post |-> post]
    /\ ret = None
    /\ ScriptIdle

CallComputeColor ==
    /\ pc = "call"
    /\ ret' = compute_color(args.row, args.sim_year, args.pre, args.post)
    /\ pc' = "returned"
    /\ UNCHANGED <<args, script_vars>>

NextColor == CallComputeColor

SpecColor == InitColor /\ [][NextColor]_vars

(***************************************************************************)
(* One run of the script, top to bottom (Streamlit runs it again on every  *)
(* interaction; the sliders and the button then return what the user set). *)
(* An exception that no code catches ends the run.  The Step 2 slider and  *)
(* time.sleep only set the pace of the loop and are left out; the column   *)
(* headers are as df.columns.str.strip() leaves them.                      *)
(***************************************************************************)
\* df.empty: no column or no row.
Empty(d) == d.columns = {} \/ Len(d.Last_Eruption) = 0

Min(S) == CHOOSE x \in S : \A y \in S : x <= y
Max(S) == CHOOSE x \in S : \A y \in S : y <= x

\* Python's min(a, b)
min(a, b) == IF b < a THEN b ELSE a

Raise(e) ==
    /\ raised' = e
    /\ pc' = "raised"

Init ==
    /\ pc = "load_data"
    /\ args = None
    /\ ret = None
    /\ csv \in CsvFiles
    /\ df = EmptyDataFrame
    /\ errors = <<>>
    /\ raised = ""
    /\ computed_min = 0
    /\ computed_max = 0
    /\ simulation_range = <<0, 0>>
    /\ legend = FALSE
    /\ total_years = 0
    /\ i = 0
    /\ frame = NoFrame
    /\ year_display = None
    /\ progress = FloatZero
    /\ table = <<>>

\* df = load_data() (lines 181-189, 196)
load_data ==
    /\ pc = "load_data"
    /\ IF csv.readable
       THEN /\ df' = [columns |-> csv.columns, Last_Eruption |-> csv.cells,
                      Eruption_Year |-> <<>>]
            /\ UNCHANGED errors
       ELSE /\ df' = EmptyDataFrame
            /\ errors' = Append(errors, "Error reading CSV file")
    /\ pc' = "required_columns"
    /\ UNCHANGED <<args, ret, csv, raised, computed_min, computed_max,
                   simulation_range, legend, total_years, i, frame,
                   year_display, progress, table>>

\* The check of the required columns and the Eruption_Year column
\* (lines 197-201)
check_required_columns ==
    /\ pc = "required_columns"
    /\ IF ~(required_columns \subseteq df.columns)
       THEN /\ errors' = Append(errors, "CSV file must contain columns")
            /\ UNCHANGED df
       ELSE /\ df' = [df EXCEPT
                        !.columns = @ \cup {"Eruption_Year"},
                        !.Eruption_Year =
                            [k \in 1..Len(df.Last_Eruption) |->
                                extract_year(df.Last_Eruption[k])]]
            /\ UNCHANGED errors
    /\ pc' = "simulation_setup"
    /\ UNCHANGED <<args, ret, csv, raised, computed_min, computed_max,
                   simulation_range, legend, total_years, i, frame,
                   year_display, progress, table>>

\* Simulation Setup (lines 206-217)
simulation_setup ==
    /\ pc = "simulation_setup"
    /\ IF ~Empty(df) /\ "Eruption_Year" \notin df.columns
       THEN /\ Raise("KeyError")
            /\ UNCHANGED <<computed_min, computed_max>>
       ELSE LET eruption_years ==
                    IF ~Empty(df)
                    THEN {df.Eruption_Year[k][1] :
                            k \in {j \in 1..Len(df.Eruption_Year) :
                                     ~isna(df.Eruption_Year[j])}}
                    ELSE {}
                default_min == IF eruption_years # {}
                               THEN Min(eruption_years) - pre_fade
                               ELSE -4360
            IN  /\ computed_min' = min(default_min, -4360)
                /\ computed_max' = 2023
                /\ pc' = "range_slider"
                /\ UNCHANGED raised
    /\ UNCHANGED <<args, ret, csv, df, errors, simulation_range, legend,
                   total_years, i, frame, year_display, progress, table>>

\* simulation_range = st.slider(...) (lines 219-226): the default value on a
\* first run, what the user set on a later one.
range_slider ==
    /\ pc = "range_slider"
    /\ simulation_range' \in {<<computed_min, computed_max>>} \cup RangePicks
    /\ pc' = "start_button"
    /\ UNCHANGED <<args, ret, csv, df, errors, raised, computed_min,
                   computed_max, legend, total_years, i, frame, year_display,
                   progress, table>>

\* update_map's active_mask, the two colour columns and the layers
\* (lines 253-321), compute_color being called with pre and post.
deck(data, sim_year, pre, post) ==
    LET n == Len(data.Eruption_Year)
        active_mask ==
            [k \in 1..n |->
                LET e == data.Eruption_Year[k]
                IN  /\ ~isna(e)
                    /\ sim_year >= e[1] - pre_fade
                    /\ sim_year <= e[1] + post_fade]
        active == {k \in 1..n : active_mask[k]}
    IN  [year     |-> sim_year,
         active   |-> active,
         inactive |-> (1..n) \ active,
         color    |-> [k \in 1..n |->
                         IF active_mask[k]
                         THEN compute_color(
                                  [Eruption_Year |-> data.Eruption_Year[k]],
                                  sim_year, pre, post).value
                         ELSE <<200, 200, 200, 100>>],
         layers   |-> IF active # {}
                      THEN <<"inactive", "shock_wave", "active">>
                      ELSE <<"inactive", "active">>]

\* update_map calling compute_color without pre and post.
update_map_default(data, sim_year) ==
    deck(data, sim_year, default_fade, default_fade)

\* update_map(sim_year) (lines 253-337): the deck of df's copy.
update_map(data, sim_year) == deck(data, sim_year, pre_fade, post_fade)

\* if st.button("Start Animation") (lines 343-362, 375)
start_button ==
    /\ pc = "start_button"
    /\ \/ /\ legend' = TRUE
          /\ total_years' = simulation_range[2] - simulation_range[1] + 1
          /\ progress' = FloatZero
          /\ i' = 0
          /\ pc' = "animation"
       \/ /\ pc' = "data_table"
          /\ UNCHANGED <<legend, total_years, progress, i>>
    /\ UNCHANGED <<args, ret, csv, df, errors, raised, computed_min,
                   computed_max, simulation_range, frame, year_display, table>>

\* One iteration of the loop over enumerate(range(...)) (lines 364-370)
animation_frame ==
    /\ pc = "animation"
    /\ simulation_range[1] + i <= simulation_range[2]
    /\ LET year == simulation_range[1] + i
       IN  IF "Eruption_Year" \notin df.columns
           THEN /\ Raise("KeyError")
                /\ UNCHANGED <<frame, year_display, progress, i>>
           ELSE /\ frame' = update_map(df, year)
                /\ year_display' = Some(year)
                /\ progress' = FloatDiv(i + 1, total_years)
                /\ i' = i + 1
                /\ UNCHANGED <<pc, raised>>
    /\ UNCHANGED <<args, ret, csv, df, errors, computed_min, computed_max,
                   simulation_range, legend, total_years, table>>

\* The loop is over: legend_container.empty() (line 373)
animation_end ==
    /\ pc = "animation"
    /\ simulation_range[1] + i > simulation_range[2]
    /\ legend' = FALSE
    /\ pc' = "data_table"
    /\ UNCHANGED <<args, ret, csv, df, errors, raised, computed_min,
                   computed_max, simulation_range, total_years, i, frame,
                   year_display, progress, table>>

\* The data table (lines 382-385): the rows whose year is in the range.
data_table ==
    /\ pc = "data_table"
    /\ IF "Eruption_Year" \notin df.columns
       THEN /\ Raise("KeyError")
            /\ UNCHANGED table
       ELSE /\ table' = SelectSeq([k \in 1..Len(df.Eruption_Year) |-> k],
                           LAMBDA k :
                             LET e == df.Eruption_Year[k]
                             IN  /\ ~isna(e)
                                 /\ e[1] >= simulation_range[1]
                                 /\ e[1] <= simulation_range[2])
            /\ pc' = "done"
            /\ UNCHANGED raised
    /\ UNCHANGED <<args, ret, csv, df, errors, computed_min, computed_max,
                   simulation_range, legend, total_years, i, frame,
                   year_display, progress>>

Next ==
    \/ load_data
    \/ check_required_columns
    \/ simulation_setup
    \/ range_slider
    \/ start_button
    \/ animation_frame
    \/ animation_end
    \/ data_table

Spec == Init /\ [][Next]_vars

(***************************************************************************)
(* Properties of extract_year, under SpecExtract.                          *)
(***************************************************************************)
\* The maximal runs of digits of t, each as <<first, last>>.
DigitRuns(t) ==
    { r \in (1..Len(t)) \X (1..Len(t)) :
        /\ r[1] <= r[2]
        /\ \A k \in r[1]..r[2] : t[k] \in Digits
        /\ r[1] = 1 \/ t[r[1] - 1] \notin Digits
        /\ r[2] = Len(t) \/ t[r[2] + 1] \notin Digits }

\* C1: a text none of whose maximal digit runs has exactly 3 or 4 digits
\* gives no year.
C1_NoRunOfThreeOrFour ==
    (pc = "returned" /\
       \A r \in DigitRuns(str(args)) : r[2] - r[1] + 1 \notin {3, 4})
    => ret = None

\* g is an optional minus sign followed by 3 or 4 digits.
IsYearText(g) ==
    LET d == IF g # <<>> /\ g[1] = "-" THEN Tail(g) ELSE g
    IN  /\ Len(d) \in {3, 4}
        /\ \A k \in 1..Len(d) : d[k] \in Digits

\* The substrings of t of that form, each as <<first, last>>.
YearTexts(t) ==
    { r \in (1..Len(t)) \X (1..Len(t)) :
        r[1] <= r[2] /\ IsYearText(SubSeq(t, r[1], r[2])) }

\* The number a decimal numeral g stands for.
RECURSIVE PlaceValue(_, _)
PlaceValue(d, k) ==
    IF k > Len(d) THEN 0
    ELSE DigitValue(d[k]) * 10 ^ (Len(d) - k) + PlaceValue(d, k + 1)

NumeralValue(g) ==
    IF g[1] = "-" THEN 0 - PlaceValue(Tail(g), 1) ELSE PlaceValue(g, 1)

\* C2: extract_year returns the value of the leftmost substring made of an
\* optional minus sign and 3 or 4 digits (the longest one starting there),
\* negative only when the substring starts with the minus sign, and absent
\* when the text has no such substring.
C2_LeftmostYear ==
    pc = "returned" =>
      LET t == str(args)
          found == YearTexts(t)
      IN  IF found = {} THEN ret = None
          ELSE LET first == Min({r[1] : r \in found})
                   last  == Max({r[2] : r \in {q \in found : q[1] = first}})
               IN  ret = Some(NumeralValue(SubSeq(t, first, last)))

\* "700-707": the first year is returned and the later "-707" ignored.
C2_Witness ==
    /\ pc = "returned"
    /\ args = StrCell(<<"7", "0", "0", "-", "7", "0", "7">>)
    /\ ret = Some(700)

(***************************************************************************)
(* Properties of compute_color, under SpecColor.                           *)
(***************************************************************************)
Dormant(e, sim_year, pre, post) ==
    \/ e = None
    \/ sim_year < e[1] - pre
    \/ sim_year > e[1] + post

\* C3: with positive pre and post, a volcano without eruption year, or at a
\* year outside [eruption_year - pre, eruption_year + post], is dormant: the
\* colour is the grey [200, 200, 200, 100], alpha exactly 100.
C3_DormantIsGrey ==
    (/\ pc = "returned"
     /\ args.pre > 0
     /\ args.post > 0
     /\ Dormant(args.row.Eruption_Year, args.sim_year, args.pre, args.post))
    => ret = [raise |-> "", value |-> <<200, 200, 200, 100>>]

\* The year after the window closes, pre and post different.
C3_Witness ==
    /\ pc = "returned"
    /\ args.row.Eruption_Year = Some(1991)
    /\ args.pre = 15
    /\ args.post = 3
    /\ args.sim_year = 1995
    /\ ret.value = <<200, 200, 200, 100>>

\* C4: with positive pre and post the volcano is active (red) with alpha 0 at
\* eruption_year - pre, alpha 180 at eruption_year and alpha 0 at
\* eruption_year + post.
C4_KeyYears ==
    (/\ pc = "returned"
     /\ args.pre > 0
     /\ args.post > 0
     /\ args.row.Eruption_Year # None)
    => LET y == args.row.Eruption_Year[1]
       IN  /\ args.sim_year = y - args.pre
                => ret = [raise |-> "", value |-> <<255, 0, 0, 0>>]
           /\ args.sim_year = y
                => ret = [raise |-> "", value |-> <<255, 0, 0, 180>>]
           /\ args.sim_year = y + args.post
                => ret = [raise |-> "", value |-> <<255, 0, 0, 0>>]

\* The closing boundary of a 15/15 window.
C4_Witness ==
    /\ pc = "returned"
    /\ args.row.Eruption_Year = Some(1991)
    /\ args.pre = 15
    /\ args.post = 15
    /\ args.sim_year = 2006
    /\ ret.value = <<255, 0, 0, 0>>

(***************************************************************************)
(* Properties of the script run, under Spec.                               *)
(***************************************************************************)
Rows == 1..Len(df.Eruption_Year)

InWindow(e, y) == e # None /\ y >= e[1] - 15 /\ y <= e[1] + 15

IsRed(c) == c[1] = 255 /\ c[2] = 0 /\ c[3] = 0

C5_Frame ==
    i > 0 =>
      \A k \in Rows :
        InWindow(df.Eruption_Year[k], frame.year) =>
          /\ k \in frame.active
          /\ IsRed(frame.color[k])
          /\ frame.color[k][4] \in 0..180
          /\ frame.year # df.Eruption_Year[k][1] => frame.color[k][4] < 180

C5_Step ==
    (i > 0 /\ i' = i + 1) =>
      \A k \in Rows :
        LET e == df.Eruption_Year[k]
        IN  (InWindow(e, frame.year) /\ InWindow(e, frame'.year)) =>
              /\ frame'.year = frame.year + 1
              /\ frame'.year <= e[1] => frame.color[k][4] <= frame'.color[k][4]
              /\ frame.year >= e[1] => frame'.color[k][4] <= frame.color[k][4]

\* C5: while the animation sweeps a volcano's fade window (15 years either
\* side), the volcano is active in every frame, its alpha is in [0, 180] and
\* below 180 except at the eruption year, and from one frame to the next it
\* never decreases up to the eruption year and never increases after it.
C5_Sweep == [] C5_Frame /\ [][C5_Step]_vars

\* The sweep of the window of 1991 has reached its last year, 2006.
C5_Witness ==
    /\ pc = "animation"
    /\ simulation_range[1] <= 1976
    /\ frame.year = 2006
    /\ \E k \in Rows :
         /\ df.Eruption_Year[k] = Some(1991)
         /\ frame.color[k] = <<255, 0, 0, 0>>

\* C6: when volcano_data.csv cannot be read, one error is reported and the
\* run goes on to its end without raising.
C6_LoadFailureHandled ==
    ~csv.readable =>
      /\ Cardinality({k \in 1..Len(errors) :
                        errors[k] = "Error reading CSV file"})
           = (IF pc = "load_data" THEN 0 ELSE 1)
      /\ pc # "raised"

\* C7: when the dataset has rows and lacks a required column, one error is
\* reported, no Eruption_Year is computed and the run goes on to its end
\* without raising.
C7_MissingColumnHandled ==
    (/\ csv.readable
     /\ Len(csv.cells) > 0
     /\ ~(required_columns \subseteq csv.columns))
    => /\ Len(errors) <= 1
       /\ "Eruption_Year" \notin df.columns
       /\ pc # "raised"

\* C8: the default given to the range slider and the range the slider
\* returns satisfy -4360 <= start_year <= end_year <= 2023.
C8_RangeWithinSlider ==
    /\ pc \in {"range_slider", "start_button", "animation", "data_table", "done"}
         => /\ -4360 <= computed_min
            /\ computed_min <= computed_max
            /\ computed_max <= 2023
    /\ pc \in {"start_button", "animation", "data_table", "done"}
         => /\ -4360 <= simulation_range[1]
            /\ simulation_range[1] <= simulation_range[2]
            /\ simulation_range[2] <= 2023

\* A progress value in (0, 1].
InUnit(x) ==
    /\ ~x.neg
    /\ \/ x.int = 0 /\ x.frac # <<>>
       \/ x.int = 1 /\ x.frac = <<>>

\* C9: once started, the loop draws the years from start_year to end_year,
\* each once, in order, beginning at start_year; it does not stop before
\* end_year and ends after it; the progress is frames drawn over
\* end_year - start_year + 1, in (0, 1] and 1 exactly at the last frame.
C9_LoopRunsToEnd ==
    [][pc = "animation" =>
         LET start_year == simulation_range[1]
             end_year   == simulation_range[2]
         IN  IF start_year + i <= end_year
             THEN /\ pc' = "animation"
                  /\ i' = i + 1
                  /\ frame'.year = start_year + i
                  /\ progress' = FloatDiv(i', end_year - start_year + 1)
                  /\ InUnit(progress')
                  /\ progress'.int = 1 <=> start_year + i = end_year
             ELSE pc' = "data_table"]_vars

C10_Frame ==
    i > 0 =>
      /\ frame.active \cap frame.inactive = {}
      /\ frame.active \cup frame.inactive = Rows
      /\ \A k \in frame.active :
           /\ IsRed(frame.color[k])
           /\ frame.color[k][4] \in 0..180
           /\ InWindow(df.Eruption_Year[k], frame.year)
      /\ \A k \in frame.inactive :
           /\ frame.color[k] = <<200, 200, 200, 100>>
           /\ ~InWindow(df.Eruption_Year[k], frame.year)

\* C10: in every frame the active and inactive sets are disjoint and cover
\* the rows, every active row is in its 15/15 window and red with alpha in
\* [0, 180], every inactive row is outside it and grey [200, 200, 200, 100],
\* and drawing a frame leaves the DataFrame as it was.
C10_Partition ==
    [] C10_Frame /\ [][pc = "animation" => df' = df]_vars

\* A frame with an active row next to an inactive one, three years before
\* the window closes (alpha 35, where the exact ramp would give 36).
C10_Witness ==
    /\ pc = "animation"
    /\ i > 0
    /\ frame.active # {}
    /\ frame.inactive # {}
    /\ \E k \in frame.active : frame.color[k] = <<255, 0, 0, 35>>

=============================================================================
